---- MODULE Spec2Model ----
(***************************************************************************)
(* AgentFactory: the orchestration of plan -> generate -> review -> QA.    *)
(*                                                                         *)
(* The entry points of the repository are modelled one at a time           *)
(* (variable entry says which one the process runs):                       *)
(*   "factory"   AgentFactory.create_agent_async   (src/agent_factory)     *)
(*   "debug_ui"  the Debug Mode state machine      (app.py)                *)
(*   "architect" Architect.design_workflow         (architect.py)          *)
(*   "process"   two builds in one process         (factory.py, engineer)  *)
(*   "tools"     one call of a tool function       (qa_lead, auditor, ...) *)
(*   "adapter"   SubprocessAgentRunner and adapter (utils, agent_adapter)  *)
(***************************************************************************)
EXTENDS Integers, Sequences, FiniteSets, TLC

(***************************************************************************)
(* Bounds of the model.                                                    *)
(***************************************************************************)
\* longest agents list a blueprint carries
MaxAgents == 2
\* largest max_review_iterations / max_retries a run is started with
MaxIterations == 2
\* longest LLM response, in pieces
MaxResponse == 3
\* longest goal, in characters
MaxGoal == 2
\* lines of a trace log file
MaxTraceLines == 5
\* send_message calls on one SubprocessAgentRunner
MaxMessages == 3
\* lines the agent under test writes to its standard output on its own
MaxAgentLines == 1

(***************************************************************************)
(* Values that cross the stage boundaries (Python values, by shape).       *)
(***************************************************************************)
RECURSIVE SeqsUpTo(_, _)
SeqsUpTo(S, n) ==
    IF n = 0 THEN {<<>>}
    ELSE LET shorter == SeqsUpTo(S, n - 1)
         IN  shorter \cup {Append(s, x) : s \in {t \in shorter : Len(t) = n - 1}, x \in S}

None == [kind |-> "None"]
\* an object that is neither dict nor str nor JSON (an ADK Event, a generator)
Object == [kind |-> "object"]
Number == [kind |-> "int"]
\* the list ["agents"]
ListOfAgentsWord == [kind |-> "list"]
\* a dict by its keys: agents is the value under "agents" (a list of dicts),
\* agent_name the value under "agent_name"; "" and <<>> when the key is absent
Dict(keys, agents, name) ==
    [kind |-> "dict", keys |-> keys, agents |-> agents, agent_name |-> name]
EmptyDict == Dict({}, <<>>, "")
\* a dict {"blueprint": v}
Wrapped(v) == [kind |-> "dict", keys |-> {"blueprint"}, blueprint |-> v]
\* the dict d with "end_to_end_context" set to a text other than "t", the
\* text given by its tokens
WithContext(d, text) ==
    [kind |-> "dict", keys |-> d.keys \cup {"end_to_end_context"}, agents |-> d.agents,
     agent_name |-> d.agent_name, end_to_end_context |-> text]
\* a str, as its sequence of lexical tokens:
\*   "{" "}"      braces
\*   "["  "]"     the member  "agents": [  and its closing bracket
\*   "c"          the member  "end_to_end_context": "t"
\*   "c(" .. ")"  the member  "end_to_end_context": "<text>", from the key to
\*                the closing quote, the tokens between them being the text
\*   "na" "nb"    the member  "agent_name": "a" / "b"
\*   "5" "null" "L"   the JSON texts 5, null and ["agents"]
\*   "x"          prose
\*   "~~~json" "~~~"   the markdown fence opening a json block, and the bare fence
Str(text) == [kind |-> "str", text |-> text]
\* json.loads threw
Raised == [kind |-> "raised"]

\* the names the Designer may give to sub-agents
AgentNames == {"a", "b"}
NameToken(n) == IF n = "a" THEN "na" ELSE "nb"
TokenName(t) == IF t = "na" THEN "a" ELSE "b"

\* an entry of blueprint["agents"]
AgentDefs == {Dict({"agent_name"}, <<>>, n) : n \in AgentNames}

\* agent_def.get("agent_name", "unknown")
AgentNameOf(agent_def) ==
    IF "agent_name" \in agent_def.keys THEN agent_def.agent_name ELSE "unknown"

FileNames == AgentNames

AgentLists == SeqsUpTo(AgentDefs, MaxAgents)

\* the blueprint dicts the Designer can produce (with and without the keys)
PlanDicts ==
    {Dict({"agents", "end_to_end_context"}, ag, "") : ag \in AgentLists}
    \cup {Dict({"agents"}, ag, "") : ag \in {l \in AgentLists : Len(l) <= 1}}
    \cup {Dict({"end_to_end_context"}, <<>>, ""), EmptyDict}

\* Python truthiness: if not blueprint, if data["agents"]
Truthy(v) ==
    CASE v.kind = "None" -> FALSE
      [] v.kind = "dict" -> v.keys # {}
      [] v.kind = "str" -> v.text # <<>>
      [] OTHER -> TRUE

(***************************************************************************)
(* json.dumps and json.loads on token texts.                               *)
(***************************************************************************)
RECURSIVE json_dumps(_), DumpAll(_)
\* json.dumps of each element of a list, concatenated
DumpAll(list) == IF list = <<>> THEN <<>> ELSE json_dumps(Head(list)) \o DumpAll(Tail(list))

\* json.dumps(value): the text of a JSON value
json_dumps(v) ==
    CASE v.kind = "None" -> <<"null">>
      [] v.kind = "int" -> <<"5">>
      [] v.kind = "list" -> <<"L">>
      [] v.kind = "dict" ->
           <<"{">>
           \o (IF "end_to_end_context" \notin v.keys THEN <<>>
               ELSE IF "end_to_end_context" \in DOMAIN v
               THEN <<"c(">> \o v.end_to_end_context \o <<")">>
               ELSE <<"c">>)
           \o (IF "agents" \in v.keys THEN <<"[">> \o DumpAll(v.agents) \o <<"]">> ELSE <<>>)
           \o (IF "agent_name" \in v.keys THEN <<NameToken(v.agent_name)>> ELSE <<>>)
           \o <<"}">>

Failed == [ok |-> FALSE]
Parsed(value, next) == [ok |-> TRUE, val |-> value, next |-> next]

RECURSIVE ParseMembers(_, _, _), ParseElements(_, _, _)
\* the members of an object from position i on, up to its closing brace;
\* a key given twice keeps its last value
ParseMembers(s, i, acc) ==
    IF i > Len(s) THEN Failed
    ELSE CASE s[i] = "}" -> Parsed(acc, i + 1)
           [] s[i] = "c" ->
                ParseMembers(s, i + 1,
                             Dict(acc.keys \cup {"end_to_end_context"}, acc.agents,
                                  acc.agent_name))
           [] s[i] = "c(" ->
                \* a string runs to its closing quote, whatever it holds
                LET closing == {j \in (i + 1)..Len(s) : s[j] = ")"}
                    close == CHOOSE j \in closing : \A k \in closing : j <= k
                IN  IF closing = {} THEN Failed
                    ELSE ParseMembers(s, close + 1,
                                      WithContext(acc, SubSeq(s, i + 1, close - 1)))
           [] s[i] \in {"na", "nb"} ->
                ParseMembers(s, i + 1, [acc EXCEPT !.keys = @ \cup {"agent_name"},
                                                   !.agent_name = TokenName(s[i])])
           [] s[i] = "[" ->
                LET list == ParseElements(s, i + 1, <<>>)
                IN  IF list.ok
                    THEN ParseMembers(s, list.next, [acc EXCEPT !.keys = @ \cup {"agents"},
                                                                !.agents = list.val])
                    ELSE Failed
           [] OTHER -> Failed

\* the objects of an agents list from position i on, up to its closing bracket
ParseElements(s, i, acc) ==
    IF i > Len(s) THEN Failed
    ELSE CASE s[i] = "]" -> Parsed(acc, i + 1)
           [] s[i] = "{" ->
                LET obj == ParseMembers(s, i + 1, EmptyDict)
                IN  IF obj.ok THEN ParseElements(s, obj.next, Append(acc, obj.val)) ELSE Failed
           [] OTHER -> Failed

\* json.loads(text): the parsed value, or Raised when it throws
json_loads(s) ==
    CASE s = <<"null">> -> None
      [] s = <<"5">> -> Number
      [] s = <<"L">> -> ListOfAgentsWord
      [] Len(s) > 0 /\ s[1] = "{" ->
           LET obj == ParseMembers(s, 2, EmptyDict)
           IN  IF obj.ok /\ obj.next = Len(s) + 1 THEN obj.val ELSE Raised
      [] OTHER -> Raised

IsFence(t) == t \in {"~~~json", "~~~"}

\* re.search(<fence>json\s*(\{.*?\})\s*<fence>, output, re.DOTALL): the pairs
\* <<i, j>> such that s[i] is a json fence directly followed by "{" and
\* s[j] is a "}" directly followed by a fence
FenceMatches(s) ==
    {m \in (1..Len(s)) \X (1..Len(s)) :
        /\ m[1] + 1 < m[2] + 1 /\ m[2] < Len(s)
        /\ s[m[1]] = "~~~json" /\ s[m[1] + 1] = "{"
        /\ s[m[2]] = "}" /\ IsFence(s[m[2] + 1])}

\* group(1) of the leftmost match, its end chosen non-greedily
FencedGroup(s) ==
    LET i == CHOOSE a \in {m[1] : m \in FenceMatches(s)} :
                 \A b \in {m[1] : m \in FenceMatches(s)} : a <= b
        j == CHOOSE a \in {m[2] : m \in {n \in FenceMatches(s) : n[1] = i}} :
                 \A b \in {m[2] : m \in {n \in FenceMatches(s) : n[1] = i}} : a <= b
    IN  SubSeq(s, i + 1, j)

\* utils.extract_blueprint_from_output
extract_blueprint_from_output(output) ==
    IF output.kind = "dict" /\ "blueprint" \in output.keys
    THEN LET bp == output.blueprint
         IN  IF bp.kind = "str" /\ json_loads(bp.text) # Raised
             THEN json_loads(bp.text)
             ELSE bp
    ELSE IF output.kind = "dict" /\ {"agents", "end_to_end_context"} \subseteq output.keys
    THEN output
    ELSE IF output.kind = "str" /\ FenceMatches(output.text) # {}
                                /\ json_loads(FencedGroup(output.text)) # Raised
    THEN json_loads(FencedGroup(output.text))
    ELSE IF output.kind = "str" /\ json_loads(output.text) # Raised
    THEN json_loads(output.text)
    ELSE None

\* the text in a fenced json block after some prose
Fenced(text) == <<"x", "~~~json">> \o text \o <<"~~~">>

\* what runner.run / the confirmation payload may hold
Scalars == {None, Object, Number, Str(<<"x">>), Str(<<>>)}
PlanTexts ==
    {Str(json_dumps(v)) : v \in PlanDicts \cup {None, ListOfAgentsWord}}
    \cup {Str(Fenced(json_dumps(v))) : v \in PlanDicts \cup {ListOfAgentsWord}}
RunOutputs ==
    PlanDicts \cup Scalars \cup PlanTexts
    \cup {Wrapped(v) : v \in PlanDicts \cup Scalars \cup PlanTexts}

(***************************************************************************)
(* Architect._clean_json_response and the parsing in design_workflow.      *)
(***************************************************************************)
HasToken(s, t) == \E i \in 1..Len(s) : s[i] = t

\* index of the first element of s from position `from` on that is in T, or
\* Len(s) + 1
RECURSIVE FirstFrom(_, _, _)
FirstFrom(s, from, T) ==
    IF from > Len(s) THEN Len(s) + 1
    ELSE IF s[from] \in T THEN from
    ELSE FirstFrom(s, from + 1, T)

Fences == {"~~~json", "~~~"}

\* Strategy 1: the content of the first code block
CodeBlock(s) ==
    IF HasToken(s, "~~~json")
    THEN \* split(<fence>json)[1].split(<fence>)[0]
         LET open == FirstFrom(s, 1, {"~~~json"})
         IN  SubSeq(s, open + 1, FirstFrom(s, open + 1, Fences) - 1)
    ELSE IF HasToken(s, "~~~")
    THEN \* parts = split(<fence>); parts[1] if len(parts) >= 3
         LET first == FirstFrom(s, 1, {"~~~"})
             second == FirstFrom(s, first + 1, {"~~~"})
         IN  IF second <= Len(s) THEN SubSeq(s, first + 1, second - 1) ELSE s
    ELSE s

\* the index of the brace closing the one at `start`: the first "}" at which
\* brace_count is back to 0; 0 when there is none
RECURSIVE MatchingBrace(_, _, _)
MatchingBrace(s, i, brace_count) ==
    IF i > Len(s) THEN 0
    ELSE IF s[i] = "{" THEN MatchingBrace(s, i + 1, brace_count + 1)
    ELSE IF s[i] = "}"
    THEN IF brace_count - 1 = 0 THEN i ELSE MatchingBrace(s, i + 1, brace_count - 1)
    ELSE MatchingBrace(s, i + 1, brace_count)

\* Strategy 2: the first balanced {...} of the text
JsonObject(s) ==
    IF HasToken(s, "{") /\ HasToken(s, "}")
    THEN LET start == FirstFrom(s, 1, {"{"})
             close == MatchingBrace(s, start, 0)
         IN  IF close > 0 THEN SubSeq(s, start, close) ELSE s
    ELSE s

\* Architect._clean_json_response
clean_json_response(text) == JsonObject(CodeBlock(text))

\* `"agents" in data`: "yes", "no", or "TypeError" for a value that is not a
\* container
ContainsAgents(data) ==
    CASE data.kind = "dict" -> IF "agents" \in data.keys THEN "yes" ELSE "no"
      [] data.kind = "list" -> "yes"
      [] OTHER -> "TypeError"

\* {"error": "...", "raw_response": response_text[:500]}
ErrorWithRaw(response_text) ==
    [kind |-> "dict", keys |-> {"error", "raw_response"}, agents |-> <<>>,
     agent_name |-> "", raw_response |-> response_text]
\* {"error": str(e)}
ErrorOnly == Dict({"error"}, <<>>, "")

\* no blueprint came out of the attempt: go on to the repair call
NeedsRepair == [kind |-> "repair"]

\* json.loads(self._clean_json_response(response_text))
ParseResponse(text) == json_loads(clean_json_response(text))

\* the first attempt of _run_with_retry, given the parse of the response: the
\* blueprint returned, NeedsRepair, or the {"error": str(e)} of the outer except
FirstAttempt(data) ==
    IF data = Raised THEN NeedsRepair
    ELSE CASE ContainsAgents(data) = "TypeError" -> ErrorOnly
           [] ContainsAgents(data) = "no" -> NeedsRepair
           [] data.kind # "dict" -> ErrorOnly   \* data["agents"] on a list
           [] data.agents # <<>> -> data
           [] OTHER -> NeedsRepair

\* the second attempt, given the parse of the repair response: what
\* design_workflow returns
RepairAttempt(response_text, data) ==
    IF data = Raised THEN ErrorWithRaw(response_text)
    ELSE CASE ContainsAgents(data) = "TypeError" -> ErrorOnly
           [] ContainsAgents(data) = "yes" ->
                \* the log line calls data.get('agents', []): no such method on a list
                IF data.kind = "dict" THEN data ELSE ErrorOnly
           [] OTHER -> ErrorWithRaw(response_text)

\* the pieces LLM responses are put together from: the macros "P" and "Q"
\* are the objects {"agents": [{"agent_name": "a"}]} and {"agents": []}
ResponsePieces == {"{", "}", "P", "Q", "L", "5", "x", "~~~json", "~~~"}

RECURSIVE Expand(_)
Expand(pieces) ==
    IF pieces = <<>> THEN <<>>
    ELSE (CASE Head(pieces) = "P" -> <<"{", "[", "{", "na", "}", "]", "}">>
            [] Head(pieces) = "Q" -> <<"{", "[", "]", "}">>
            [] OTHER -> <<Head(pieces)>>) \o Expand(Tail(pieces))

\* the response texts of the LLM
Responses == {Expand(p) : p \in SeqsUpTo(ResponsePieces, MaxResponse)}

(***************************************************************************)
(* State.                                                                  *)
(***************************************************************************)
VARIABLES
    entry,                  \* which entry point this process runs
    \* ---- AgentFactory.create_agent_async ----
    pc,                     \* position in create_agent_async
    mode,                   \* "debug" | "yolo"
    debug_callback,         \* TRUE iff the caller registered an observer
    max_review_iterations,  \* LoopAgent max_iterations
    code_files,             \* <workspace>/agent_<name>.py: its content
    ws_files,               \* the other files present in the workspace
    cwd,                    \* process working directory: "orig" | "workspace"
    blueprint_data,         \* payload of the pending confirmation request
    blueprint,              \* what the Architect stage handed back
    agent_i,                \* index of agent_def in agents_to_build
    iteration,              \* times the LoopAgent of agent_i has looped
    gen_calls,              \* Engineer runs per sub-agent index
    pass_at,                \* attempt whose code the Auditor approved (0: none)
    generated_code_files,   \* the list of that name
    qa_results,             \* the list of that name
    trace,                  \* observer notifications and stage calls, in order
    log,                    \* warnings and errors of the workspace logger
    result,                 \* what create_agent_async handed to its caller
    \* ---- Architect.design_workflow ----
    arch_pc,                \* position in _run_with_retry
    llm_calls,              \* runner.run_debug calls made
    response_text,          \* text of the first response
    design_result,          \* what design_workflow returned
    \* ---- Debug Mode of app.py (st.session_state and the slider) ----
    debug_state,
    ui_blueprint,           \* st.session_state.blueprint
    code,                   \* st.session_state.code
    feedback,               \* st.session_state.feedback
    attempt,                \* st.session_state.attempt
    max_retries,            \* the "Max API Calls" slider
    engineer_args,          \* arguments of the last engineer.build_agent call
    engineer_runs,          \* build_agent calls since Continue left ARCHITECT_DONE
    reviewed,               \* status of the last review of the code held
    saved,                  \* code handed to save_agent since the session started
    slider_moved,           \* the slider was moved since Continue left ARCHITECT_DONE
    \* two builds in one process
    goals,                  \* the goal of each build
    build_pc,               \* where each build stands
    workspace_dirs,         \* workspace_dir of each build, once prepared
    process_cwd,            \* os.getcwd()
    handlers,               \* the log files of the FileHandlers of logger "Factory"
    log_records,            \* <<log file, build>>: the file holds a record of the build
    code_written,           \* <<directory, build>>: agent_<name>.py of the build is there
    \* ---- one call of a tool function, and the trace log file ----
    call,                   \* the function called and its arguments
    return_value,           \* what the call handed back to its caller
    trace_log,              \* content of the file at log_file_path
    \* ---- SubprocessAgentRunner and the agent_adapter.py it starts ----
    process,                \* self.process is set
    runner_pc,              \* "idle" | "readline": where send_message stands
    adapter_pc,             \* "none" | "import" | "read" | "run" | "exited"
    stdin,                  \* lines written to the subprocess, not yet read by it
    stdout,                 \* lines written by the subprocess, not yet read
    running,                \* number of the request the agent is running on
    sent,                   \* requests written by send_message since start()
    answers                 \* what the send_message calls handed back, in order

factoryVars ==
    <<pc, mode, debug_callback, max_review_iterations, code_files, ws_files, cwd,
      blueprint_data, blueprint, agent_i, iteration, gen_calls, pass_at,
      generated_code_files, qa_results, trace, log, result>>

architectVars == <<arch_pc, llm_calls, response_text, design_result>>

uiVars ==
    <<debug_state, ui_blueprint, code, feedback, attempt, max_retries, engineer_args,
      engineer_runs, reviewed, saved, slider_moved>>

processVars ==
    <<goals, build_pc, workspace_dirs, process_cwd, handlers, log_records, code_written>>

toolVars == <<call, return_value, trace_log>>

adapterVars == <<process, runner_pc, adapter_pc, stdin, stdout, running, sent, answers>>

vars == <<entry, factoryVars, architectVars, uiVars, processVars, toolVars, adapterVars>>

(***************************************************************************)
(* The parts of the state an entry point does not touch.                   *)
(***************************************************************************)
\* no response yet
NoResponse == <<"no response">>

ArchitectIdle ==
    /\ arch_pc = "first"
    /\ llm_calls = 0
    /\ response_text = NoResponse
    /\ design_result = None

\* st.session_state as the first rendering of the Debug tab sets it ("None"
\* stands for Python's None where the other values are strings)
FirstRendering ==
    /\ debug_state = "IDLE"
    /\ ui_blueprint = None
    /\ code = "None"
    /\ feedback = "None"
    /\ attempt = 0
    /\ engineer_args = None
    /\ engineer_runs = 0
    /\ reviewed = "None"
    /\ saved = "None"
    /\ slider_moved = FALSE

UIIdle == FirstRendering /\ max_retries = 1

Builds == {1, 2}

\* no workspace_dir yet
NoDir == <<>>

\* a fresh process: no build has started, logger "Factory" has no FileHandler
ProcessIdle ==
    /\ goals = [b \in Builds |-> <<>>]
    /\ build_pc = [b \in Builds |-> "start"]
    /\ workspace_dirs = [b \in Builds |-> NoDir]
    /\ process_cwd = <<>>
    /\ handlers = {}
    /\ log_records = {}
    /\ code_written = {}

\* no tool function has been called, no trace log written
NoCall == [function |-> "none"]

Pending == [kind |-> "pending"]

ToolsIdle ==
    /\ call = NoCall
    /\ return_value = Pending
    /\ trace_log = <<>>

\* no SubprocessAgentRunner has been started
AdapterIdle ==
    /\ process = FALSE
    /\ runner_pc = "idle"
    /\ adapter_pc = "none"
    /\ stdin = <<>>
    /\ stdout = <<>>
    /\ running = 0
    /\ sent = 0
    /\ answers = <<>>

FactoryIdle ==
    /\ pc = "prepare"
    /\ mode = "yolo"
    /\ debug_callback = FALSE
    /\ max_review_iterations = 1
    /\ code_files = [n \in FileNames |-> <<>>]
    /\ ws_files = {}
    /\ cwd = "orig"
    /\ blueprint_data = None
    /\ blueprint = None
    /\ agent_i = 1
    /\ iteration = 0
    /\ gen_calls = [i \in 1..MaxAgents |-> 0]
    /\ pass_at = [i \in 1..MaxAgents |-> 0]
    /\ generated_code_files = <<>>
    /\ qa_results = <<>>
    /\ trace = <<>>
    /\ log = <<>>
    /\ result = [kind |-> "running"]

(***************************************************************************)
(* AgentFactory.create_agent_async                                         *)
(***************************************************************************)
NoFile == <<>>
\* left in the workspace by an earlier build of the same goal
Stale == <<0, 0>>
\* written by Engineer attempt k for sub-agent index i
Code(i, k) == <<i, k>>

Running == [kind |-> "running"]
\* return None, None
NoneNone == [kind |-> "NoneNone"]
\* an exception that leaves create_agent_async
Escaped == [kind |-> "exception"]
\* return workspace_dir, final_results
FinalResults(files, qa) ==
    [kind |-> "results", status |-> "success", generated_files |-> files, qa_results |-> qa]

\* a call of debug_callback(step_name, content) and what it returned
Notification(step, i, returned) ==
    [type |-> "notify", what |-> step, agent |-> i, returned |-> returned]
StageCall(stage, i) == [type |-> "call", what |-> stage, agent |-> i]

\* blueprint.get("agents", [])
agents_to_build == IF "agents" \in blueprint.keys THEN blueprint.agents ELSE <<>>

agent_name == AgentNameOf(agents_to_build[agent_i])

Return(value, messages) ==
    /\ pc' = "done"
    /\ result' = value
    /\ log' = log \o messages

Goto(next) ==
    /\ pc' = next
    /\ UNCHANGED <<result, log>>

\* notify_debug's raise InterruptedError, then except InterruptedError
Interrupted ==
    Return(NoneNone, <<"Process cancelled by user", "Process interrupted by user">>)

\* except Exception
FactoryError == Return(NoneNone, <<"Factory error">>)

\* what an observer may do when called: return True, False or None, or raise
CallbackOutcomes == {"True", "False", "None", "raise"}

\* a notify_debug that goes on whatever the observer returns
notify_debugGoesOn(step, i, next) ==
    IF ~debug_callback
    THEN /\ Goto(next)
         /\ UNCHANGED trace
    ELSE \E r \in CallbackOutcomes :
           /\ trace' = Append(trace, Notification(step, i, r))
           /\ Goto(next)

\* notify_debug(step_name, content), then on to next
notify_debug(step, i, next) ==
    IF ~debug_callback
    THEN /\ Goto(next)
         /\ UNCHANGED trace
    ELSE \E r \in CallbackOutcomes :
           /\ trace' = Append(trace, Notification(step, i, r))
           /\ CASE r = "True" -> Goto(next)
                [] r = "raise" -> FactoryError
                [] OTHER -> Interrupted

\* the for loop over agents_to_build: its next position
AgentLoop(i) == IF i <= Len(agents_to_build) THEN "notify_building" ELSE "notify_qa_start"

\* the for loop over generated_code_files
QaLoop(files, j) == IF j <= Len(files) THEN "qa" ELSE "notify_qa_complete"


\* a LoopAgent that runs its sub-agents once more than max_iterations
LoopAgentContinuesOnceMore(times_looped) == times_looped <= max_review_iterations

\* the LoopAgent runs Engineer then Auditor again while it has looped fewer
\* than max_iterations times
LoopAgentContinues(times_looped) == times_looped < max_review_iterations

\* where write_code_to_file puts Path(filename): an absolute path names the
\* workspace file itself, a relative one is resolved against the cwd
WriteLands(filename) ==
    IF filename = "absolute" THEN "workspace" ELSE cwd

\* a build that goes on without having prepared its workspace
FPrepareWorkspaceSkipped ==
    /\ entry = "factory" /\ pc = "prepare"
    /\ Goto("notify_start")
    /\ UNCHANGED <<architectVars, uiVars, processVars, toolVars, adapterVars>>
    /\ UNCHANGED <<entry, mode, debug_callback, max_review_iterations, code_files, ws_files,
                   cwd, blueprint_data, blueprint, agent_i, iteration, gen_calls, pass_at,
                   generated_code_files, qa_results, trace>>

\* prepare_workspace(goal), called before the try block
FPrepareWorkspace ==
    /\ entry = "factory" /\ pc = "prepare"
    /\ \/ /\ ws_files' = ws_files \cup {"debug.log"}
          /\ Goto("notify_start")
       \/ /\ Return(Escaped, <<>>)
          /\ UNCHANGED ws_files
    /\ UNCHANGED <<architectVars, uiVars, processVars, toolVars, adapterVars>>
    /\ UNCHANGED <<entry, mode, debug_callback, max_review_iterations, code_files, cwd,
                   blueprint_data, blueprint, agent_i, iteration, gen_calls, pass_at,
                   generated_code_files, qa_results, trace>>

\* a first notification that comes only after the Designer has run
FNotifyArchitectStartLate ==
    /\ entry = "factory" /\ pc = "notify_start"
    /\ \E r \in CallbackOutcomes :
         /\ trace' = trace \o <<StageCall("Designer", 0), Notification("Architect: Start", 0, r)>>
         /\ IF r = "True" THEN Goto("architect") ELSE Interrupted
    /\ ws_files' = ws_files \cup {"trace_architect.log"}
    /\ UNCHANGED <<architectVars, uiVars, processVars, toolVars, adapterVars>>
    /\ UNCHANGED <<entry, mode, debug_callback, max_review_iterations, code_files,
                   cwd, blueprint_data, blueprint, agent_i, iteration, gen_calls, pass_at,
                   generated_code_files, qa_results>>

FNotifyArchitectStart ==
    /\ entry = "factory" /\ pc = "notify_start"
    /\ notify_debug("Architect: Start", 0, "architect")
    /\ UNCHANGED <<architectVars, uiVars, processVars, toolVars, adapterVars>>
    /\ UNCHANGED <<entry, mode, debug_callback, max_review_iterations, code_files, ws_files,
                   cwd, blueprint_data, blueprint, agent_i, iteration, gen_calls, pass_at,
                   generated_code_files, qa_results>>

\* _run_architect_yolo
FRunArchitectYolo ==
    /\ entry = "factory" /\ pc = "architect" /\ mode = "yolo"
    /\ trace' = Append(trace, StageCall("Designer", 0))
    /\ \/ /\ FactoryError
          /\ UNCHANGED <<blueprint, ws_files>>
       \/ \E run_result \in RunOutputs :
            /\ blueprint' = extract_blueprint_from_output(run_result)
            /\ ws_files' = ws_files \cup {"trace_architect.log"}
            /\ Goto("check_blueprint")
    /\ UNCHANGED <<architectVars, uiVars, processVars, toolVars, adapterVars>>
    /\ UNCHANGED <<entry, mode, debug_callback, max_review_iterations, code_files, cwd,
                   blueprint_data, agent_i, iteration, gen_calls, pass_at,
                   generated_code_files, qa_results>>

\* _run_architect_with_hitl, up to the approval notification
FRunArchitectHitl ==
    /\ entry = "factory" /\ pc = "architect" /\ mode = "debug"
    /\ trace' = Append(trace, StageCall("Designer", 0))
    /\ \/ /\ FactoryError
          /\ UNCHANGED <<blueprint, blueprint_data, ws_files>>
       \/ \* a confirmation request with payload.get('blueprint', '')
          \E payload \in RunOutputs :
            /\ blueprint_data' = payload
            /\ ws_files' = ws_files \cup {"trace_architect.log"}
            /\ Goto("awaiting_approval")
            /\ UNCHANGED blueprint
       \/ \* no confirmation request: the last event, or None
          \E final_output \in {Object, None} :
            /\ blueprint' = extract_blueprint_from_output(final_output)
            /\ ws_files' = ws_files \cup {"trace_architect.log"}
            /\ Goto("check_blueprint")
            /\ UNCHANGED blueprint_data
    /\ UNCHANGED <<architectVars, uiVars, processVars, toolVars, adapterVars>>
    /\ UNCHANGED <<entry, mode, debug_callback, max_review_iterations, code_files, cwd,
                   agent_i, iteration, gen_calls, pass_at, generated_code_files, qa_results>>

FNotifyAwaitingApproval ==
    /\ entry = "factory" /\ pc = "awaiting_approval"
    /\ notify_debug("Architect: Awaiting Approval", 0, "parse_approval")
    /\ UNCHANGED <<architectVars, uiVars, processVars, toolVars, adapterVars>>
    /\ UNCHANGED <<entry, mode, debug_callback, max_review_iterations, code_files, ws_files,
                   cwd, blueprint_data, blueprint, agent_i, iteration, gen_calls, pass_at,
                   generated_code_files, qa_results>>

\* json.loads(blueprint_data) if it is a str, else blueprint_data; None when
\* the parse throws
FParseApproval ==
    /\ entry = "factory" /\ pc = "parse_approval"
    /\ blueprint' =
         IF blueprint_data.kind = "str"
         THEN IF json_loads(blueprint_data.text) = Raised
              THEN None
              ELSE json_loads(blueprint_data.text)
         ELSE blueprint_data
    /\ blueprint_data' = None
    /\ Goto("check_blueprint")
    /\ UNCHANGED <<architectVars, uiVars, processVars, toolVars, adapterVars>>
    /\ UNCHANGED <<entry, mode, debug_callback, max_review_iterations, code_files, ws_files,
                   cwd, agent_i, iteration, gen_calls, pass_at, generated_code_files,
                   qa_results, trace>>

\* if not blueprint: return None, None
FCheckBlueprint ==
    /\ entry = "factory" /\ pc = "check_blueprint"
    /\ IF ~Truthy(blueprint)
       THEN Return(NoneNone, <<"Failed to get blueprint from Architect">>)
       ELSE Goto("notify_architect_complete")
    /\ UNCHANGED <<architectVars, uiVars, processVars, toolVars, adapterVars>>
    /\ UNCHANGED <<entry, mode, debug_callback, max_review_iterations, code_files, ws_files,
                   cwd, blueprint_data, blueprint, agent_i, iteration, gen_calls, pass_at,
                   generated_code_files, qa_results, trace>>

FNotifyArchitectComplete ==
    /\ entry = "factory" /\ pc = "notify_architect_complete"
    /\ notify_debug("Architect: Complete", 0, "save_blueprint")
    /\ UNCHANGED <<architectVars, uiVars, processVars, toolVars, adapterVars>>
    /\ UNCHANGED <<entry, mode, debug_callback, max_review_iterations, code_files, ws_files,
                   cwd, blueprint_data, blueprint, agent_i, iteration, gen_calls, pass_at,
                   generated_code_files, qa_results>>

\* open(blueprint_path, 'w'), json.dump, then blueprint.get("agents", [])
FSaveBlueprint ==
    /\ entry = "factory" /\ pc = "save_blueprint"
    /\ \/ \* open() fails
          /\ FactoryError
          /\ UNCHANGED ws_files
       \/ /\ ws_files' = ws_files \cup {"blueprint.json"}
          /\ IF blueprint.kind = "dict"
             THEN Goto("notify_phase_start")
             ELSE \* json.dump of a non-JSON object, or .get on a non-dict
                  FactoryError
    /\ UNCHANGED <<architectVars, uiVars, processVars, toolVars, adapterVars>>
    /\ UNCHANGED <<entry, mode, debug_callback, max_review_iterations, code_files, cwd,
                   blueprint_data, blueprint, agent_i, iteration, gen_calls, pass_at,
                   generated_code_files, qa_results, trace>>

FNotifyEngineerPhaseStart ==
    /\ entry = "factory" /\ pc = "notify_phase_start"
    /\ notify_debug("Factory: Engineer Phase Start", 0, AgentLoop(1))
    /\ UNCHANGED <<architectVars, uiVars, processVars, toolVars, adapterVars>>
    /\ UNCHANGED <<entry, mode, debug_callback, max_review_iterations, code_files, ws_files,
                   cwd, blueprint_data, blueprint, agent_i, iteration, gen_calls, pass_at,
                   generated_code_files, qa_results>>

FNotifyEngineerBuilding ==
    /\ entry = "factory" /\ pc = "notify_building"
    /\ notify_debug("Engineer: Building", agent_i, "create_engineer")
    /\ UNCHANGED <<architectVars, uiVars, processVars, toolVars, adapterVars>>
    /\ UNCHANGED <<entry, mode, debug_callback, max_review_iterations, code_files, ws_files,
                   cwd, blueprint_data, blueprint, agent_i, iteration, gen_calls, pass_at,
                   generated_code_files, qa_results>>

\* create_engineer_agent, LoopAgent, TraceLoggerPlugin, InMemoryRunner
FCreateEngineer ==
    /\ entry = "factory" /\ pc = "create_engineer"
    /\ \/ \* raises between os.chdir(workspace_dir) and os.chdir(original_dir)
          /\ cwd' = "workspace"
          /\ FactoryError
       \/ \* LoopAgent, TraceLoggerPlugin or InMemoryRunner raises
          /\ FactoryError
          /\ UNCHANGED cwd
       \/ /\ Goto("engineer")
          /\ UNCHANGED cwd
    /\ UNCHANGED <<architectVars, uiVars, processVars, toolVars, adapterVars>>
    /\ UNCHANGED <<entry, mode, debug_callback, max_review_iterations, code_files, ws_files,
                   blueprint_data, blueprint, agent_i, iteration, gen_calls, pass_at,
                   generated_code_files, qa_results, trace>>


\* one Engineer run of the review loop (a Generator call); its tool
\* write_code_to_file may be called with a relative or an absolute filename
FEngineerRun ==
    /\ entry = "factory" /\ pc = "engineer"
    /\ gen_calls' = [gen_calls EXCEPT ![agent_i] = @ + 1]
    /\ trace' = Append(trace, StageCall("Generator", agent_i))
    /\ \/ /\ FactoryError
          /\ UNCHANGED <<code_files, ws_files>>
       \/ \E filename \in {"relative", "absolute", "none"} :
            /\ code_files' =
                 IF filename # "none" /\ WriteLands(filename) = "workspace"
                 THEN [code_files EXCEPT ![agent_name] = Code(agent_i, iteration + 1)]
                 ELSE code_files
            /\ ws_files' = ws_files \cup {"trace_agent.log"}
            /\ Goto("auditor")
    /\ UNCHANGED <<architectVars, uiVars, processVars, toolVars, adapterVars>>
    /\ UNCHANGED <<entry, mode, debug_callback, max_review_iterations, cwd, blueprint_data,
                   blueprint, agent_i, iteration, pass_at, generated_code_files, qa_results>>

\* one Auditor run of the review loop (a Reviewer call): it approves, which
\* ends the loop, or it does not, and the LoopAgent loops again or stops
FAuditorRun ==
    /\ entry = "factory" /\ pc = "auditor"
    /\ trace' = Append(trace, StageCall("Reviewer", agent_i))
    /\ \/ /\ FactoryError
          /\ UNCHANGED <<iteration, pass_at>>
       \/ \E approved \in BOOLEAN :
            IF approved
            THEN /\ pass_at' = [pass_at EXCEPT ![agent_i] = iteration + 1]
                 /\ Goto("track")
                 /\ UNCHANGED iteration
            ELSE /\ iteration' = iteration + 1
                 /\ Goto(IF LoopAgentContinues(iteration + 1) THEN "engineer" ELSE "track")
                 /\ UNCHANGED pass_at
    /\ UNCHANGED <<architectVars, uiVars, processVars, toolVars, adapterVars>>
    /\ UNCHANGED <<entry, mode, debug_callback, max_review_iterations, code_files, ws_files,
                   cwd, blueprint_data, blueprint, agent_i, gen_calls, generated_code_files,
                   qa_results>>

\* code_file = <workspace>/agent_<name>.py; recorded if os.path.exists
FTrackFile ==
    /\ entry = "factory" /\ pc = "track"
    /\ IF code_files[agent_name] # NoFile
       THEN /\ generated_code_files' =
                 Append(generated_code_files, [agent_name |-> agent_name, index |-> agent_i])
            /\ UNCHANGED log
       ELSE /\ log' = Append(log, "Code file not found")
            /\ UNCHANGED generated_code_files
    /\ pc' = "notify_agent_complete"
    /\ UNCHANGED <<architectVars, uiVars, processVars, toolVars, adapterVars>>
    /\ UNCHANGED <<entry, mode, debug_callback, max_review_iterations, code_files, ws_files,
                   cwd, blueprint_data, blueprint, agent_i, iteration, gen_calls, pass_at,
                   qa_results, trace, result>>

\* a for loop that goes back to the first agent_def after the second
FNotifyEngineerCompleteBackwards ==
    /\ entry = "factory" /\ pc = "notify_agent_complete"
    /\ notify_debug("Engineer: Complete", agent_i,
                    IF agent_i = 2 THEN "notify_building" ELSE AgentLoop(agent_i + 1))
    /\ agent_i' = IF pc' = "done" THEN agent_i ELSE IF agent_i = 2 THEN 1 ELSE agent_i + 1
    /\ iteration' = IF pc' = "done" THEN iteration ELSE 0
    /\ UNCHANGED <<architectVars, uiVars, processVars, toolVars, adapterVars>>
    /\ UNCHANGED <<entry, mode, debug_callback, max_review_iterations, code_files, ws_files,
                   cwd, blueprint_data, blueprint, gen_calls, pass_at,
                   generated_code_files, qa_results>>

\* the notification closing one pass of the for loop, then the next agent_def
FNotifyEngineerComplete ==
    /\ entry = "factory" /\ pc = "notify_agent_complete"
    /\ notify_debug("Engineer: Complete", agent_i, AgentLoop(agent_i + 1))
    /\ agent_i' = IF pc' = "done" THEN agent_i ELSE agent_i + 1
    /\ iteration' = IF pc' = "done" THEN iteration ELSE 0
    /\ UNCHANGED <<architectVars, uiVars, processVars, toolVars, adapterVars>>
    /\ UNCHANGED <<entry, mode, debug_callback, max_review_iterations, code_files, ws_files,
                   cwd, blueprint_data, blueprint, gen_calls, pass_at,
                   generated_code_files, qa_results>>

\* a QA phase that opens without telling the observer
FNotifyQAStartSilent ==
    /\ entry = "factory" /\ pc = "notify_qa_start"
    /\ Goto(QaLoop(generated_code_files, 1))
    /\ UNCHANGED <<architectVars, uiVars, processVars, toolVars, adapterVars>>
    /\ UNCHANGED <<entry, mode, debug_callback, max_review_iterations, code_files, ws_files,
                   cwd, blueprint_data, blueprint, agent_i, iteration, gen_calls, pass_at,
                   generated_code_files, qa_results, trace>>

FNotifyQAStart ==
    /\ entry = "factory" /\ pc = "notify_qa_start"
    /\ notify_debug("QA Lead: Start", 0, QaLoop(generated_code_files, 1))
    /\ UNCHANGED <<architectVars, uiVars, processVars, toolVars, adapterVars>>
    /\ UNCHANGED <<entry, mode, debug_callback, max_review_iterations, code_files, ws_files,
                   cwd, blueprint_data, blueprint, agent_i, iteration, gen_calls, pass_at,
                   generated_code_files, qa_results>>

\* a QA loop that validates a sub-agent once more when its first verdict is FAIL
FQARunAgainOnFail ==
    /\ entry = "factory" /\ pc = "qa"
    /\ LET code_info == generated_code_files[Len(qa_results) + 1]
       IN  /\ trace' = Append(trace, StageCall("Validator", code_info.index))
           /\ \/ /\ FactoryError
                 /\ UNCHANGED <<qa_results, ws_files>>
              \/ /\ \A n \in 1..Len(trace) : trace[n] # StageCall("Validator", code_info.index)
                 /\ Goto("qa")
                 /\ UNCHANGED <<qa_results, ws_files>>
              \/ \E qa_result \in {"PASS", "FAIL"} :
                   /\ qa_results' =
                        Append(qa_results,
                               [agent_name |-> code_info.agent_name, result |-> qa_result])
                   /\ ws_files' = ws_files \cup {"qa_trace_agent.log"}
                   /\ Goto(QaLoop(generated_code_files, Len(qa_results) + 2))
    /\ UNCHANGED <<architectVars, uiVars, processVars, toolVars, adapterVars>>
    /\ UNCHANGED <<entry, mode, debug_callback, max_review_iterations, code_files, cwd,
                   blueprint_data, blueprint, agent_i, iteration, gen_calls, pass_at,
                   generated_code_files>>

\* one pass of the QA loop: create_qa_lead_agent and qa_runner.run
FQARun ==
    /\ entry = "factory" /\ pc = "qa"
    /\ LET code_info == generated_code_files[Len(qa_results) + 1]
       IN  /\ trace' = Append(trace, StageCall("Validator", code_info.index))
           /\ \/ /\ FactoryError
                 /\ UNCHANGED <<qa_results, ws_files>>
              \/ \E qa_result \in {"PASS", "FAIL"} :
                   /\ qa_results' =
                        Append(qa_results,
                               [agent_name |-> code_info.agent_name, result |-> qa_result])
                   /\ ws_files' = ws_files \cup {"qa_trace_agent.log"}
                   /\ Goto(QaLoop(generated_code_files, Len(qa_results) + 2))
    /\ UNCHANGED <<architectVars, uiVars, processVars, toolVars, adapterVars>>
    /\ UNCHANGED <<entry, mode, debug_callback, max_review_iterations, code_files, cwd,
                   blueprint_data, blueprint, agent_i, iteration, gen_calls, pass_at,
                   generated_code_files>>

FNotifyQAComplete ==
    /\ entry = "factory" /\ pc = "notify_qa_complete"
    /\ notify_debug("QA Lead: Complete", 0, "summary")
    /\ UNCHANGED <<architectVars, uiVars, processVars, toolVars, adapterVars>>
    /\ UNCHANGED <<entry, mode, debug_callback, max_review_iterations, code_files, ws_files,
                   cwd, blueprint_data, blueprint, agent_i, iteration, gen_calls, pass_at,
                   generated_code_files, qa_results>>

\* final_results, return workspace_dir, final_results
FSummary ==
    /\ entry = "factory" /\ pc = "summary"
    /\ Return(FinalResults(generated_code_files, qa_results), <<>>)
    /\ UNCHANGED <<architectVars, uiVars, processVars, toolVars, adapterVars>>
    /\ UNCHANGED <<entry, mode, debug_callback, max_review_iterations, code_files, ws_files,
                   cwd, blueprint_data, blueprint, agent_i, iteration, gen_calls, pass_at,
                   generated_code_files, qa_results, trace>>

\* create_agent_async(goal, mode, max_review_iterations, debug_callback) is
\* entered; the workspace of the goal may hold code files of an earlier build
InitFactory ==
    /\ entry = "factory"
    /\ pc = "prepare"
    /\ mode \in {"debug", "yolo"}
    /\ debug_callback \in BOOLEAN
    /\ max_review_iterations \in 1..MaxIterations
    /\ code_files \in [FileNames -> {NoFile, Stale}]
    /\ ws_files = {}
    /\ cwd = "orig"
    /\ blueprint_data = None
    /\ blueprint = None
    /\ agent_i = 1
    /\ iteration = 0
    /\ gen_calls = [i \in 1..MaxAgents |-> 0]
    /\ pass_at = [i \in 1..MaxAgents |-> 0]
    /\ generated_code_files = <<>>
    /\ qa_results = <<>>
    /\ trace = <<>>
    /\ log = <<>>
    /\ result = Running
    /\ ArchitectIdle
    /\ UIIdle
    /\ ProcessIdle
    /\ ToolsIdle
    /\ AdapterIdle

NextFactory ==
    \/ FPrepareWorkspace
    \/ FNotifyArchitectStart
    \/ FRunArchitectYolo
    \/ FRunArchitectHitl
    \/ FNotifyAwaitingApproval
    \/ FParseApproval
    \/ FCheckBlueprint
    \/ FNotifyArchitectComplete
    \/ FSaveBlueprint
    \/ FNotifyEngineerPhaseStart
    \/ FNotifyEngineerBuilding
    \/ FCreateEngineer
    \/ FEngineerRun
    \/ FAuditorRun
    \/ FTrackFile
    \/ FNotifyEngineerComplete
    \/ FNotifyQAStart
    \/ FQARun
    \/ FNotifyQAComplete
    \/ FSummary

SpecFactory == InitFactory /\ [][NextFactory]_vars


(***************************************************************************)
(* Architect.design_workflow                                               *)
(***************************************************************************)
\* what the parse of an LLM response can be
ResponseParses == {ParseResponse(r) : r \in Responses}

\* the first runner.run_debug call and the parse of its response
AFirstAttempt ==
    /\ entry = "architect" /\ arch_pc = "first"
    /\ llm_calls' = llm_calls + 1
    /\ \/ \* run_debug raises: the outer except returns {"error": str(e)}
          /\ design_result' = ErrorOnly
          /\ arch_pc' = "done"
          /\ UNCHANGED response_text
       \/ \E text \in Responses :
            /\ response_text' = text
            /\ IF FirstAttempt(ParseResponse(text)) = NeedsRepair
               THEN /\ arch_pc' = "repair"
                    /\ UNCHANGED design_result
               ELSE /\ arch_pc' = "done"
                    /\ design_result' = FirstAttempt(ParseResponse(text))
    /\ UNCHANGED <<entry, factoryVars, uiVars, processVars, toolVars, adapterVars>>

\* the repair call (the JSON-only prompt) and the parse of its response
ARepair ==
    /\ entry = "architect" /\ arch_pc = "repair"
    /\ llm_calls' = llm_calls + 1
    /\ arch_pc' = "done"
    /\ \/ design_result' = ErrorOnly
       \/ \E data \in ResponseParses : design_result' = RepairAttempt(response_text, data)
    /\ UNCHANGED <<entry, response_text, factoryVars, uiVars, processVars, toolVars, adapterVars>>

InitArchitect ==
    /\ entry = "architect"
    /\ ArchitectIdle
    /\ FactoryIdle
    /\ UIIdle
    /\ ProcessIdle
    /\ ToolsIdle
    /\ AdapterIdle

NextArchitect == AFirstAttempt \/ ARepair

SpecArchitect == InitArchitect /\ [][NextArchitect]_vars


(***************************************************************************)
(* Debug Mode of app.py: the state machine over st.session_state.          *)
(***************************************************************************)
\* Architect.design_workflow as a function of the first response and of the
\* parse of the repair response
design_workflow(first_text, repair_data) ==
    IF FirstAttempt(ParseResponse(first_text)) = NeedsRepair
    THEN RepairAttempt(first_text, repair_data)
    ELSE FirstAttempt(ParseResponse(first_text))

\* the blueprints design_workflow hands to the Debug Mode: those of the
\* responses of at most one piece
DebugResponses == {<<>>} \cup {Expand(<<piece>>) : piece \in ResponsePieces}

DesignResults ==
    {ErrorOnly} \cup
    {design_workflow(first_text, ParseResponse(repair_text)) :
        first_text \in DebugResponses, repair_text \in DebugResponses}

\* what engineer.build_agent may return
Codes == {"code A", "code B"}

\* what auditor.review_agent may return: a dict with or without "status",
\* "feedback" and "reasoning" ("absent": no such key)
ReviewResults ==
    [status : {"PASS", "FAIL", "absent"}, feedback : {"absent", "f1", "f2"},
     reasoning : {"absent", "r1"}]

\* result.get("feedback") or result.get("reasoning")
FeedbackOf(review) ==
    IF review.feedback # "absent" THEN review.feedback
    ELSE IF review.reasoning # "absent" THEN review.reasoning
    ELSE "None"

\* the check of the Continue button: "agents" in blueprint and
\* blueprint.get("agents") is truthy; "AttributeError" for a list
ContinueCheck(bp) ==
    CASE bp.kind = "dict" ->
           IF "agents" \in bp.keys /\ bp.agents # <<>> THEN "valid" ELSE "invalid"
      [] OTHER -> "AttributeError"

\* blueprint.get("end_to_end_context", "")
ContextOf(bp) == IF "end_to_end_context" \in bp.keys THEN "t" ELSE ""

\* Start Debug Session
UStartDebugSession ==
    /\ entry = "debug_ui" /\ debug_state = "IDLE"
    /\ debug_state' = "ARCHITECT_READY"
    /\ UNCHANGED <<ui_blueprint, code, feedback, attempt, max_retries, engineer_args,
                   engineer_runs, reviewed, saved, slider_moved>>
    /\ UNCHANGED <<entry, factoryVars, architectVars, processVars, toolVars, adapterVars>>

\* Run Architect
URunArchitect ==
    /\ entry = "debug_ui" /\ debug_state = "ARCHITECT_READY"
    /\ \E designed \in DesignResults : ui_blueprint' = designed
    /\ debug_state' = "ARCHITECT_DONE"
    /\ UNCHANGED <<code, feedback, attempt, max_retries, engineer_args, engineer_runs,
                   reviewed, saved, slider_moved>>
    /\ UNCHANGED <<entry, factoryVars, architectVars, processVars, toolVars, adapterVars>>

\* Refine, with a feedback text that is not blank
URefine ==
    /\ entry = "debug_ui" /\ debug_state = "ARCHITECT_DONE"
    /\ \E designed \in DesignResults : ui_blueprint' = designed
    /\ UNCHANGED <<debug_state, code, feedback, attempt, max_retries, engineer_args,
                   engineer_runs, reviewed, saved, slider_moved>>
    /\ UNCHANGED <<entry, factoryVars, architectVars, processVars, toolVars, adapterVars>>

\* a Continue that does not look at the blueprint
UContinueUnchecked ==
    /\ entry = "debug_ui" /\ debug_state = "ARCHITECT_DONE"
    /\ debug_state' = "ENGINEER_READY"
    /\ attempt' = 1
    /\ engineer_runs' = 0
    /\ slider_moved' = FALSE
    /\ UNCHANGED <<ui_blueprint, code, feedback, max_retries, engineer_args, reviewed, saved>>
    /\ UNCHANGED <<entry, factoryVars, architectVars, processVars, toolVars, adapterVars>>

\* Continue (from ARCHITECT_DONE)
UContinue ==
    /\ entry = "debug_ui" /\ debug_state = "ARCHITECT_DONE"
    /\ ContinueCheck(ui_blueprint) = "valid"
    /\ debug_state' = "ENGINEER_READY"
    /\ attempt' = 1
    /\ engineer_runs' = 0
    /\ slider_moved' = FALSE
    /\ UNCHANGED <<ui_blueprint, code, feedback, max_retries, engineer_args, reviewed, saved>>
    /\ UNCHANGED <<entry, factoryVars, architectVars, processVars, toolVars, adapterVars>>

\* Run Engineer: code = factory.engineer.build_agent(target_agent, context)
URunEngineer ==
    /\ entry = "debug_ui" /\ debug_state = "ENGINEER_READY"
    /\ ui_blueprint.agents # <<>>
    /\ engineer_args' =
         [target_agent |-> ui_blueprint.agents[1], context |-> ContextOf(ui_blueprint)]
    /\ engineer_runs' = engineer_runs + 1
    /\ \E generated \in Codes : code' = generated
    /\ reviewed' = "None"
    /\ debug_state' = "ENGINEER_DONE"
    /\ UNCHANGED <<ui_blueprint, feedback, attempt, max_retries, saved, slider_moved>>
    /\ UNCHANGED <<entry, factoryVars, architectVars, processVars, toolVars, adapterVars>>

\* Continue to Auditor
UContinueToAuditor ==
    /\ entry = "debug_ui" /\ debug_state = "ENGINEER_DONE"
    /\ debug_state' = "AUDITOR_READY"
    /\ UNCHANGED <<ui_blueprint, code, feedback, attempt, max_retries, engineer_args,
                   engineer_runs, reviewed, saved, slider_moved>>
    /\ UNCHANGED <<entry, factoryVars, architectVars, processVars, toolVars, adapterVars>>

\* Run Auditor: result = factory.auditor.review_agent(code, target_agent)
URunAuditor ==
    /\ entry = "debug_ui" /\ debug_state = "AUDITOR_READY"
    /\ \E review \in ReviewResults :
         IF review.status = "absent"
         THEN \* result["status"] raises KeyError: the rerun ends in the
              \* exception, the session state as it was
              /\ reviewed' = "KeyError"
              /\ UNCHANGED <<debug_state, saved, feedback>>
         ELSE
         /\ reviewed' = review.status
         /\ IF review.status = "PASS"
            THEN /\ debug_state' = "SUCCESS"
                 /\ \/ saved' = code
                    \/ UNCHANGED saved    \* save_agent raises
                 /\ UNCHANGED feedback
            ELSE /\ feedback' = FeedbackOf(review)
                 /\ debug_state' = IF attempt < max_retries THEN "RETRY_NEEDED" ELSE "FAILED"
                 /\ UNCHANGED saved
    /\ UNCHANGED <<ui_blueprint, code, attempt, max_retries, engineer_args, engineer_runs,
                   slider_moved>>
    /\ UNCHANGED <<entry, factoryVars, architectVars, processVars, toolVars, adapterVars>>

\* a Retry that does not count the attempt
URetryUncounted ==
    /\ entry = "debug_ui" /\ debug_state = "RETRY_NEEDED"
    /\ debug_state' = "ENGINEER_READY"
    /\ UNCHANGED <<ui_blueprint, code, feedback, attempt, max_retries, engineer_args,
                   engineer_runs, reviewed, saved, slider_moved>>
    /\ UNCHANGED <<entry, factoryVars, architectVars, processVars, toolVars, adapterVars>>

\* Retry (Back to Engineer)
URetry ==
    /\ entry = "debug_ui" /\ debug_state = "RETRY_NEEDED"
    /\ attempt' = attempt + 1
    /\ debug_state' = "ENGINEER_READY"
    /\ UNCHANGED <<ui_blueprint, code, feedback, max_retries, engineer_args, engineer_runs,
                   reviewed, saved, slider_moved>>
    /\ UNCHANGED <<entry, factoryVars, architectVars, processVars, toolVars, adapterVars>>

\* Abort
UAbort ==
    /\ entry = "debug_ui"
    /\ debug_state \in {"ARCHITECT_READY", "ARCHITECT_DONE", "ENGINEER_READY",
                        "ENGINEER_DONE", "AUDITOR_READY", "RETRY_NEEDED"}
    /\ debug_state' = "IDLE"
    /\ UNCHANGED <<ui_blueprint, code, feedback, attempt, max_retries, engineer_args,
                   engineer_runs, reviewed, saved, slider_moved>>
    /\ UNCHANGED <<entry, factoryVars, architectVars, processVars, toolVars, adapterVars>>

\* a Start Over that opens the next session at once
UStartOverToArchitect ==
    /\ entry = "debug_ui" /\ debug_state \in {"SUCCESS", "FAILED"}
    /\ debug_state' = "ARCHITECT_READY"
    /\ UNCHANGED <<ui_blueprint, code, feedback, attempt, max_retries, engineer_args,
                   engineer_runs, reviewed, saved, slider_moved>>
    /\ UNCHANGED <<entry, factoryVars, architectVars, processVars, toolVars, adapterVars>>

\* Start Over
UStartOver ==
    /\ entry = "debug_ui" /\ debug_state \in {"SUCCESS", "FAILED"}
    /\ debug_state' = "IDLE"
    /\ UNCHANGED <<ui_blueprint, code, feedback, attempt, max_retries, engineer_args,
                   engineer_runs, reviewed, saved, slider_moved>>
    /\ UNCHANGED <<entry, factoryVars, architectVars, processVars, toolVars, adapterVars>>

\* the Max API Calls slider of the sidebar is moved
USlider ==
    /\ entry = "debug_ui"
    /\ \E value \in 1..MaxIterations :
         /\ value # max_retries
         /\ max_retries' = value
    /\ slider_moved' = TRUE
    /\ UNCHANGED <<debug_state, ui_blueprint, code, feedback, attempt, engineer_args,
                   engineer_runs, reviewed, saved>>
    /\ UNCHANGED <<entry, factoryVars, architectVars, processVars, toolVars, adapterVars>>

\* the Debug tab is rendered for the first time, the slider at some value
InitUI ==
    /\ entry = "debug_ui"
    /\ FirstRendering
    /\ max_retries \in 1..MaxIterations
    /\ FactoryIdle
    /\ ArchitectIdle
    /\ ProcessIdle
    /\ ToolsIdle
    /\ AdapterIdle

NextUI ==
    \/ UStartDebugSession
    \/ URunArchitect
    \/ URefine
    \/ UContinue
    \/ URunEngineer
    \/ UContinueToAuditor
    \/ URunAuditor
    \/ URetry
    \/ UAbort
    \/ UStartOver
    \/ USlider

SpecUI == InitUI /\ [][NextUI]_vars

(***************************************************************************)
(* The factory and the Debug Mode, either one.                             *)
(***************************************************************************)
InitBuild == InitFactory \/ InitUI

NextBuild == NextFactory \/ NextUI

SpecBuild == InitBuild /\ [][NextBuild]_vars

(***************************************************************************)
(* The retry budget and what follows its exhaustion.                       *)
(***************************************************************************)
\* the review loop of sub-agent i has ended, or stands at its end, without
\* an approval: every review of i failed and the budget is used up
NeverApproved(i) ==
    /\ entry = "factory"
    /\ pass_at[i] = 0
    /\ i < agent_i \/ (i = agent_i /\ iteration = max_review_iterations)

Recorded(j) == \E n \in 1..Len(generated_code_files) : generated_code_files[n].index = j

Logged(message) == \E n \in 1..Len(log) : log[n] = message

C2_NoSuccessWithoutPass ==
    result.kind = "results" => \A i \in 1..Len(agents_to_build) : pass_at[i] # 0

\* C3: once sub-agent i has exhausted its retries, no Generator call is made
\* and no generated_files entry exists for any sub-agent j > i.
C3_NothingAfterExhaustion ==
    \A i \in 1..MaxAgents : \A j \in 1..MaxAgents :
        (i < j /\ NeverApproved(i)) => (gen_calls[j] = 0 /\ ~Recorded(j))

\* C4: every file recorded in generated_files holds the code of the attempt
\* the Reviewer approved for that sub-agent.
C4_OnlyApprovedCodePersisted ==
    \A n \in 1..Len(generated_code_files) :
        LET recorded == generated_code_files[n]
        IN  /\ pass_at[recorded.index] # 0
            /\ code_files[recorded.agent_name] =
                 Code(recorded.index, pass_at[recorded.index])

\* C5: the feedback stored when the Auditor rejected is part of what the
\* Engineer run after RETRY_NEEDED was given.
C5_FeedbackReachesEngineer ==
    (debug_state = "ENGINEER_DONE" /\ attempt > 1 /\ feedback # "None")
        => feedback \in {engineer_args.context, AgentNameOf(engineer_args.target_agent)}

\* C6: for a plan whose agents list is empty or missing, no Generator,
\* Reviewer or Validator call is made and create_agent_async returns the
\* failure value, never a result with status "success".
C6_InvalidPlanFails ==
    (blueprint.kind = "dict" /\ agents_to_build = <<>>)
        => /\ \A n \in 1..Len(trace) : trace[n].type = "call" => trace[n].what = "Designer"
           /\ pc = "done" => result = NoneNone

\* C7: a dict without an "error" key that design_workflow returns has a
\* non-empty agents list.
C7_SuccessHasAgents ==
    (arch_pc = "done" /\ design_result.kind = "dict" /\ "error" \notin design_result.keys)
        => ("agents" \in design_result.keys /\ design_result.agents # <<>>)

\* C8: design_workflow makes at most two LLM calls, and when the first
\* response is malformed (no JSON, or no non-empty agents list in it) it
\* returns an error only after the repair call.
C8_RepairBeforeError ==
    /\ llm_calls <= 2
    /\ LET data == ParseResponse(response_text)
           malformed ==
               \/ data = Raised
               \/ data.kind # "dict"
               \/ "agents" \notin data.keys
               \/ data.agents = <<>>
       IN  (/\ arch_pc = "done"
            /\ response_text # NoResponse
            /\ malformed
            /\ design_result.kind = "dict"
            /\ "error" \in design_result.keys)
               => llm_calls = 2

\* C9: create_agent_async never raises to its caller.
C9_NeverRaises == result # Escaped

\* C10: a build the observer cancelled does not return the value that a
\* build without a plan returns, which is (None, None).
C10_CancelledIsDistinct ==
    (pc = "done" /\ Logged("Process interrupted by user")) => result # NoneNone

(***************************************************************************)
(* The observer.                                                           *)
(***************************************************************************)
IsCall(event, stages) == event.type = "call" /\ event.what \in stages

IsNotification(event, outcomes) == event.type = "notify" /\ event.returned \in outcomes

LastEvent == trace[Len(trace)]

C12_NotificationBeforeEveryCall ==
    debug_callback =>
        \A n \in 1..Len(trace) :
            IsCall(trace[n], {"Designer", "Generator", "Reviewer"})
                => (n > 1 /\ trace[n - 1].type = "notify")

\* C13: once the observer has returned False, the build is over with a
\* non-success value, and that notification is the last event of the build:
\* no stage call and no notification follows it.
C13_VetoStopsTheBuild ==
    \A n \in 1..Len(trace) :
        IsNotification(trace[n], {"False"})
            => (n = Len(trace) /\ pc = "done" /\ result = NoneNone)

\* C13's case: the observer vetoed after the first sub-agent was built.
C13_VetoedAfterBuilding ==
    /\ trace # <<>>
    /\ LastEvent = Notification("Engineer: Complete", 1, "False")
    /\ gen_calls[1] > 0

\* C14: a build is cancelled only when a registered observer has returned
\* False.
C14_OnlyFalseCancels ==
    Logged("Process cancelled by user")
        => (debug_callback /\ trace # <<>> /\ IsNotification(LastEvent, {"False"}))

(***************************************************************************)
(* The order of the stages and the artifacts of a successful build.        *)
(***************************************************************************)
CallsOf(stage, i) == {n \in 1..Len(trace) : trace[n] = StageCall(stage, i)}

\* C15: a result with status "success" holds exactly one generated file for
\* every sub-agent of the plan.
C15_OneArtifactPerAgent ==
    result.kind = "results"
        => \A i \in 1..Len(agents_to_build) :
              Cardinality({n \in 1..Len(result.generated_files) :
                              result.generated_files[n].index = i}) = 1

\* C16: whenever a Designer, Generator, Reviewer or Validator call has been
\* issued, prepare_workspace has completed: the workspace and its debug.log
\* exist.
C16_WorkspaceBeforeCalls ==
    (\E n \in 1..Len(trace) : trace[n].type = "call") => "debug.log" \in ws_files

\* C16's case: the Validator has been called, after the other stages.
C16_AllStagesCalled ==
    /\ \E n \in 1..Len(trace) : IsCall(trace[n], {"Validator"})
    /\ CallsOf("Generator", 1) # {}

\* an event of the Engineer phase: a Generator or Reviewer call, or a
\* notification about one sub-agent
OfAgent(event) ==
    \/ IsCall(event, {"Generator", "Reviewer"})
    \/ event.type = "notify" /\ event.agent > 0

\* C17: the events of the Engineer phase come in the order of the plan (no
\* event of a sub-agent is followed by one of an earlier sub-agent), and the
\* Generator of a sub-agent has started only after the review loop of every
\* sub-agent before it has ended, approved or out of iterations.
C17_BuiltInPlanOrder ==
    /\ \A n \in 1..(Len(trace) - 1) :
          (OfAgent(trace[n]) /\ OfAgent(trace[n + 1]))
              => trace[n].agent <= trace[n + 1].agent
    /\ \A j \in 1..MaxAgents : \A i \in 1..MaxAgents :
          (gen_calls[j] > 0 /\ i < j)
              => (pass_at[i] # 0 \/ gen_calls[i] = max_review_iterations)

\* C17's case: the Engineer of the second sub-agent runs after the first
\* one used up two iterations.
C17_SecondAfterFirst ==
    /\ gen_calls[1] = 2 /\ pass_at[1] = 0
    /\ gen_calls[2] = 1

\* C20: a build does not end on a Generator call: after a Generator failure
\* the review of that attempt follows.
C20_GeneratorFaultNotTerminal ==
    (pc = "done" /\ trace # <<>>) => ~IsCall(LastEvent, {"Generator"})

(***************************************************************************)
(* Two builds in one process: workspaces, the "Factory" logger, the cwd.   *)
(* A path is the sequence of the slugs of the workspaces below the         *)
(* directory the process started in, which is <<>>.                        *)
(***************************************************************************)
\* the [:50] of the slug
SlugLength == 50

\* the characters goals are made of
GoalChars == {"a", "A", "-"}

\* the goals: the short ones, and those that end right after the place
\* where the slug is cut
Goals ==
    (SeqsUpTo(GoalChars, MaxGoal) \ {<<>>})
    \cup {[n \in 1..(SlugLength - 1) |-> "a"] \o ending :
            ending \in {g \in SeqsUpTo(GoalChars, MaxGoal) : Len(g) = MaxGoal}}

\* c if c.isalnum() else "_", for c in goal.lower()
SlugChar(c) ==
    CASE c = "A" -> "a"
      [] c = "a" -> "a"
      [] OTHER -> "_"

\* a slug that is not cut
slugWhole(goal) == [n \in 1..Len(goal) |-> SlugChar(goal[n])]

\* "".join(c if c.isalnum() else "_" for c in goal.lower())[:50]
slug(goal) ==
    LET joined == [n \in 1..Len(goal) |-> SlugChar(goal[n])]
    IN  SubSeq(joined, 1, IF Len(joined) < SlugLength THEN Len(joined) ELSE SlugLength)

\* os.path.join(os.getcwd(), "workspaces", slug)
WorkspaceDir(goal) == Append(process_cwd, slug(goal))

\* a workspace_logger call of build b: the record goes to every FileHandler
\* the logger "Factory" has
Emit(b, attached) == log_records \cup {<<log_file, b>> : log_file \in attached}

\* prepare_workspace(goal) of build b
BPrepareWorkspace(b) ==
    /\ entry = "process" /\ build_pc[b] = "start"
    /\ \/ \* os.makedirs or logging.FileHandler raises
          /\ build_pc' = [build_pc EXCEPT ![b] = "done"]
          /\ UNCHANGED <<workspace_dirs, handlers, log_records>>
       \/ LET workspace_dir == WorkspaceDir(goals[b])
              \* setup_logging adds a FileHandler unless one has this baseFilename
              attached == handlers \cup {workspace_dir}
          IN  /\ workspace_dirs' = [workspace_dirs EXCEPT ![b] = workspace_dir]
              /\ handlers' = attached
              /\ log_records' = Emit(b, attached)
              /\ build_pc' = [build_pc EXCEPT ![b] = "prepared"]
    /\ UNCHANGED <<goals, process_cwd, code_written>>
    /\ UNCHANGED <<entry, factoryVars, architectVars, uiVars, toolVars, adapterVars>>

\* create_engineer_agent of build b: os.chdir(workspace_dir), LlmAgent(...),
\* os.chdir(original_dir); then the log line before the review loop
BCreateEngineer(b) ==
    /\ entry = "process" /\ build_pc[b] = "prepared"
    /\ \/ \* raises after os.chdir(workspace_dir); except Exception logs it
          /\ process_cwd' = workspace_dirs[b]
          /\ build_pc' = [build_pc EXCEPT ![b] = "done"]
       \/ /\ build_pc' = [build_pc EXCEPT ![b] = "review"]
          /\ UNCHANGED process_cwd
    /\ log_records' = Emit(b, handlers)
    /\ UNCHANGED <<goals, workspace_dirs, handlers, code_written>>
    /\ UNCHANGED <<entry, factoryVars, architectVars, uiVars, toolVars, adapterVars>>

\* the Engineer of build b calls write_code_to_file("agent_<name>.py", code)
\* in its review loop: Path(filename) is resolved against the cwd
BWriteCode(b) ==
    /\ entry = "process" /\ build_pc[b] = "review"
    /\ \/ code_written' = code_written \cup {<<process_cwd, b>>}
       \/ \* write_text raises: the tool returns status "error"
          UNCHANGED code_written
    /\ UNCHANGED <<goals, build_pc, workspace_dirs, process_cwd, handlers, log_records>>
    /\ UNCHANGED <<entry, factoryVars, architectVars, uiVars, toolVars, adapterVars>>

\* the rest of build b, up to its last log line
BFinish(b) ==
    /\ entry = "process" /\ build_pc[b] = "review"
    /\ build_pc' = [build_pc EXCEPT ![b] = "done"]
    /\ log_records' = Emit(b, handlers)
    /\ UNCHANGED <<goals, workspace_dirs, process_cwd, handlers, code_written>>
    /\ UNCHANGED <<entry, factoryVars, architectVars, uiVars, toolVars, adapterVars>>

\* two create_agent_async calls with some goals, in a fresh process
InitProcess ==
    /\ entry = "process"
    /\ goals \in [Builds -> Goals]
    /\ build_pc = [b \in Builds |-> "start"]
    /\ workspace_dirs = [b \in Builds |-> NoDir]
    /\ process_cwd = <<>>
    /\ handlers = {}
    /\ log_records = {}
    /\ code_written = {}
    /\ FactoryIdle
    /\ ArchitectIdle
    /\ UIIdle
    /\ ToolsIdle
    /\ AdapterIdle

NextProcess ==
    \E b \in Builds :
        \/ BPrepareWorkspace(b)
        \/ BCreateEngineer(b)
        \/ BWriteCode(b)
        \/ BFinish(b)

SpecProcess == InitProcess /\ [][NextProcess]_vars

\* C18: two builds that have prepared their workspaces have different
\* workspace directories.
C18_DistinctWorkspaces ==
    \A b1 \in Builds : \A b2 \in Builds :
        (b1 # b2 /\ workspace_dirs[b1] # NoDir /\ workspace_dirs[b2] # NoDir)
            => workspace_dirs[b1] # workspace_dirs[b2]

\* C19: the records of a build are in its own debug.log only, and every
\* build finds the working directory the process started in.
C19_BuildsShareNothing ==
    /\ \A record \in log_records : record[1] = workspace_dirs[record[2]]
    /\ \A b \in Builds :
          workspace_dirs[b] # NoDir => Len(workspace_dirs[b]) = 1

(***************************************************************************)
(* Verdicts, the attempt counter and the final states of the Debug Mode.   *)
(***************************************************************************)
\* C21: in the Debug Mode every Run Auditor either moves to SUCCESS on a
\* PASS or to RETRY_NEEDED or FAILED on anything else; a result without a
\* readable status counts as a Fail and raises nothing.
C21_UnreadableVerdictIsFail ==
    [][(entry = "debug_ui" /\ debug_state = "AUDITOR_READY" /\ reviewed' # reviewed)
          => /\ reviewed' # "KeyError"
             /\ debug_state' \in {"SUCCESS", "RETRY_NEEDED", "FAILED"}
             /\ (debug_state' = "SUCCESS") <=> (reviewed' = "PASS")]_vars

\* C29: while the slider is left alone, from ENGINEER_READY to FAILED the
\* attempt counter is between 1 and max_retries; a Retry adds exactly one to
\* it, RETRY_NEEDED is entered with attempt < max_retries and FAILED with
\* attempt >= max_retries.
C29_AttemptWithinBudget ==
    /\ []((/\ debug_state \in {"ENGINEER_READY", "ENGINEER_DONE", "AUDITOR_READY",
                              "RETRY_NEEDED", "SUCCESS", "FAILED"}
           /\ ~slider_moved)
             => (1 <= attempt /\ attempt <= max_retries))
    /\ [][/\ (debug_state = "RETRY_NEEDED" /\ debug_state' = "ENGINEER_READY")
               => attempt' = attempt + 1
          /\ (debug_state # "RETRY_NEEDED" /\ debug_state' = "RETRY_NEEDED")
               => attempt' < max_retries'
          /\ (debug_state # "FAILED" /\ debug_state' = "FAILED")
               => attempt' >= max_retries'
          /\ attempt' # attempt
               => \/ debug_state = "RETRY_NEEDED"
                  \/ (debug_state = "ARCHITECT_DONE" /\ attempt' = 1)]_vars

\* C29 witness: the second and last attempt of a budget of two has failed.
C29_FailedAtSecondAttempt ==
    /\ debug_state = "FAILED"
    /\ ~slider_moved
    /\ attempt = 2 /\ max_retries = 2
    /\ engineer_runs = 2

\* C30: SUCCESS is entered from AUDITOR_READY only, on a PASS for the code
\* held, and the agent is saved at that step only; in SUCCESS and FAILED
\* neither the Engineer nor the Auditor runs, and the state is left for
\* IDLE only.
C30_FinalStates ==
    [][/\ (debug_state # "SUCCESS" /\ debug_state' = "SUCCESS")
           => (debug_state = "AUDITOR_READY" /\ reviewed' = "PASS" /\ code' = code)
       /\ saved' # saved
           => (debug_state = "AUDITOR_READY" /\ debug_state' = "SUCCESS" /\ saved' = code)
       /\ debug_state \in {"SUCCESS", "FAILED"}
           => /\ engineer_runs' = engineer_runs /\ engineer_args' = engineer_args
              /\ code' = code /\ reviewed' = reviewed /\ feedback' = feedback
              /\ debug_state' \in {debug_state, "IDLE"}]_vars

\* C30 witness: a session has been started over after a SUCCESS reached at
\* the second attempt, the approved code saved.
C30_StartedOverAfterSuccess ==
    /\ debug_state = "IDLE"
    /\ reviewed = "PASS"
    /\ attempt = 2
    /\ saved = code

(***************************************************************************)
(* The tool functions, each called once with some argument, and the trace  *)
(* log plugin.                                                             *)
(***************************************************************************)
\* what is at code_filepath, by what each step of execute_agent_code meets;
\* exec(code, ...) and runner.run(...) end normally, with an exception that
\* derives from Exception, or with one that does not
Artifacts ==
    LET Endings == {"completes", "Exception", "SystemExit", "KeyboardInterrupt"}
    IN  [exists : BOOLEAN, read_text : {"text", "raises"}, exec : Endings,
         defines_agent : BOOLEAN, run : Endings,
         result : {"dict", "unserialisable dict", "other"}]

\* qa_lead.execute_agent_code(code_filepath, test_input, tool_context)
execute_agent_code(artifact) ==
    LET failure(text) == [kind |-> "dict", success |-> FALSE, error |-> text]
        \* except Exception: anything else leaves the function
        except(exception) ==
            IF exception = "Exception" THEN failure("traceback")
            ELSE [kind |-> "raised", exception |-> exception]
    IN  IF ~artifact.exists THEN failure("Code file not found")
        ELSE IF artifact.read_text = "raises" THEN except("Exception")
        ELSE IF artifact.exec # "completes" THEN except(artifact.exec)
        ELSE IF ~artifact.defines_agent
        THEN failure("Code does not define an 'agent' variable")
        ELSE IF artifact.run # "completes" THEN except(artifact.run)
        ELSE IF artifact.result = "unserialisable dict" THEN except("Exception")
        ELSE [kind |-> "dict", success |-> TRUE, output |-> "output_text"]

\* the QA Lead calls the tool execute_agent_code
TExecuteAgentCode ==
    /\ entry = "tools" /\ call.function = "execute_agent_code"
    /\ return_value = Pending
    /\ return_value' = execute_agent_code(call.code_filepath)
    /\ UNCHANGED <<call, trace_log>>
    /\ UNCHANGED <<entry, factoryVars, architectVars, uiVars, processVars, adapterVars>>

\* the code handed to the Auditor, as a sequence of the pieces of text the
\* review looks for ("x": any other text)
ReviewedCodes == SeqsUpTo({"subprocess", "os.system", "def get_weather", "x"}, 2)

\* the blueprints handed to the Auditor: JSON dicts with or without agent_name
ReviewedBlueprints ==
    {EmptyDict} \cup {Dict({"agent_name"}, <<>>, n) : n \in AgentNames \cup {"WeatherBot"}}

\* a review that looks for subprocess only
review_codeSubprocessOnly(code_text, bp) ==
    LET issues ==
            (IF ~HasToken(code_text, "def get_weather")
                /\ "agent_name" \in bp.keys /\ bp.agent_name = "WeatherBot"
             THEN <<"Missing 'get_weather' function.">> ELSE <<>>)
            \o (IF HasToken(code_text, "subprocess")
                THEN <<"Unsafe import detected: subprocess or os.system.">> ELSE <<>>)
    IN  IF issues # <<>>
        THEN [kind |-> "dict", approved |-> FALSE, issues |-> issues]
        ELSE [kind |-> "True"]

\* Auditor.review_code(code, blueprint)
review_code(code_text, bp) ==
    LET issues ==
            (IF ~HasToken(code_text, "def get_weather")
                /\ "agent_name" \in bp.keys /\ bp.agent_name = "WeatherBot"
             THEN <<"Missing 'get_weather' function.">> ELSE <<>>)
            \o (IF HasToken(code_text, "subprocess") \/ HasToken(code_text, "os.system")
                THEN <<"Unsafe import detected: subprocess or os.system.">> ELSE <<>>)
    IN  IF issues # <<>>
        THEN [kind |-> "dict", approved |-> FALSE, issues |-> issues]
        ELSE [kind |-> "True"]

\* a caller hands some code and a blueprint to Auditor.review_code
TReviewCode ==
    /\ entry = "tools" /\ call.function = "review_code"
    /\ return_value = Pending
    /\ return_value' = review_code(call.code, call.blueprint)
    /\ UNCHANGED <<call, trace_log>>
    /\ UNCHANGED <<entry, factoryVars, architectVars, uiVars, processVars, adapterVars>>

\* the blueprints that hold both agents and end_to_end_context, the context
\* being "t" or a text that quotes a fenced block
FullBlueprints ==
    LET plain == {bp \in PlanDicts : {"agents", "end_to_end_context"} \subseteq bp.keys}
    IN  plain \cup {WithContext(bp, <<"~~~json", "{", "}", "~~~">>) : bp \in plain}

\* bp itself, {"blueprint": bp}, {"blueprint": json.dumps(bp)}, json.dumps(bp)
\* and json.dumps(bp) in a fenced json block
BlueprintForms(bp) ==
    <<bp, Wrapped(bp), Wrapped(Str(json_dumps(bp))), Str(json_dumps(bp)),
      Str(<<"~~~json">> \o json_dumps(bp) \o <<"~~~">>)>>

\* a caller hands the output of a run to extract_blueprint_from_output
TExtractBlueprint ==
    /\ entry = "tools" /\ call.function = "extract_blueprint_from_output"
    /\ return_value = Pending
    /\ return_value' = extract_blueprint_from_output(call.output)
    /\ UNCHANGED <<call, trace_log>>
    /\ UNCHANGED <<entry, factoryVars, architectVars, uiVars, processVars, adapterVars>>

\* a callback that opens the log file for writing
TAfterAgentCallbackRewrites ==
    /\ entry = "tools" /\ call.function = "after_agent_callback"
    /\ Len(trace_log) + 2 <= MaxTraceLines
    /\ \E agent \in AgentNames :
         \/ UNCHANGED trace_log
         \/ trace_log' = <<agent>>
         \/ trace_log' = <<agent, "-----">>
    /\ UNCHANGED <<call, return_value>>
    /\ UNCHANGED <<entry, factoryVars, architectVars, uiVars, processVars, adapterVars>>

\* TraceLoggerPlugin.after_agent_callback(agent, callback_context): a line
\* of the file is one f.write
TAfterAgentCallback ==
    /\ entry = "tools" /\ call.function = "after_agent_callback"
    /\ Len(trace_log) + 2 <= MaxTraceLines
    /\ \E agent \in AgentNames :
         \/ \* the session cannot be read, open or json.dumps raises
            UNCHANGED trace_log
         \/ \* the second write raises
            trace_log' = Append(trace_log, agent)
         \/ trace_log' = trace_log \o <<agent, "-----">>
    /\ UNCHANGED <<call, return_value>>
    /\ UNCHANGED <<entry, factoryVars, architectVars, uiVars, processVars, adapterVars>>

\* the calls made
Calls ==
    {[function |-> "execute_agent_code", code_filepath |-> artifact] :
        artifact \in Artifacts}
    \cup {[function |-> "review_code", code |-> code_text, blueprint |-> bp] :
            code_text \in ReviewedCodes, bp \in ReviewedBlueprints}
    \cup {[function |-> "extract_blueprint_from_output", output |-> output, bp |-> None] :
            output \in RunOutputs}
    \cup {[function |-> "extract_blueprint_from_output",
           output |-> BlueprintForms(bp)[form], bp |-> bp] :
            bp \in FullBlueprints, form \in 1..5}
    \cup {[function |-> "after_agent_callback"]}

\* one call, not yet made; the trace log is new or left by an earlier build
InitTools ==
    /\ entry = "tools"
    /\ call \in Calls
    /\ return_value = Pending
    /\ trace_log \in {<<>>, <<"a", "-----">>}
    /\ call.function # "after_agent_callback" => trace_log = <<>>
    /\ FactoryIdle
    /\ ArchitectIdle
    /\ UIIdle
    /\ ProcessIdle
    /\ AdapterIdle

NextTools ==
    \/ TExecuteAgentCode
    \/ TReviewCode
    \/ TExtractBlueprint
    \/ TAfterAgentCallback

SpecTools == InitTools /\ [][NextTools]_vars

\* C22: execute_agent_code hands a result to its caller whatever the
\* artifact does, with success = true exactly when loading and running
\* completed without error.
C22_ExecuteNeverRaises ==
    (call.function = "execute_agent_code" /\ return_value # Pending)
        => /\ return_value.kind = "dict"
           /\ return_value.success
                <=> /\ call.code_filepath.exists
                    /\ call.code_filepath.read_text = "text"
                    /\ call.code_filepath.exec = "completes"
                    /\ call.code_filepath.defines_agent
                    /\ call.code_filepath.run = "completes"
                    /\ call.code_filepath.result # "unserialisable dict"

\* C23: review_code rejects, with a non-empty issues list, exactly the code
\* that holds subprocess or os.system, or lacks def get_weather when the
\* blueprint's agent_name is WeatherBot; it returns True otherwise.
C23_StaticCheck ==
    (call.function = "review_code" /\ return_value # Pending)
        => LET rejected ==
                 \/ HasToken(call.code, "subprocess")
                 \/ HasToken(call.code, "os.system")
                 \/ /\ "agent_name" \in call.blueprint.keys
                    /\ call.blueprint.agent_name = "WeatherBot"
                    /\ ~HasToken(call.code, "def get_weather")
           IN  IF rejected
               THEN /\ return_value.kind = "dict"
                    /\ ~return_value.approved
                    /\ return_value.issues # <<>>
               ELSE return_value = [kind |-> "True"]

\* C23 witness: code that holds os.system, and nothing else to object to,
\* was rejected.
C23_OsSystemRejected ==
    /\ call.function = "review_code"
    /\ return_value # Pending
    /\ call.code = <<"os.system", "def get_weather">>
    /\ call.blueprint.keys = {"agent_name"} /\ call.blueprint.agent_name = "WeatherBot"
    /\ return_value.kind = "dict"

\* C26: extract_blueprint_from_output gives back the blueprint from each of
\* its five forms.
C26_EveryFormGivesTheBlueprint ==
    (call.function = "extract_blueprint_from_output" /\ call.bp # None
     /\ return_value # Pending)
        => return_value = call.bp

\* C27: extract_blueprint_from_output returns a dict or None.
C27_DictOrNone ==
    (call.function = "extract_blueprint_from_output" /\ return_value # Pending)
        => return_value.kind \in {"dict", "None"}

\* C28: a callback leaves what the trace log held as a prefix of what it
\* holds afterwards.
C28_TraceLogAppendOnly ==
    [][/\ Len(trace_log') >= Len(trace_log)
       /\ SubSeq(trace_log', 1, Len(trace_log)) = trace_log]_vars

\* C28 witness: a callback has written to a log that held an entry
\* before.
C28_ThreeEntries ==
    /\ call.function = "after_agent_callback"
    /\ Len(trace_log) >= 4
    /\ trace_log[1] = "a" /\ trace_log[3] = "b"

(***************************************************************************)
(* Plan design in automated mode.                                          *)
(***************************************************************************)
\* C24: in automated mode the Designer is invoked once; when it yields no
\* blueprint (nothing, or something that is not a plan dict) the build
\* returns the failure value, blueprint.json is not written and no
\* Generator, Reviewer or Validator call is made.
C24_NoPlanNoRetry ==
    (mode = "yolo" /\ CallsOf("Designer", 0) # {})
        => /\ Cardinality(CallsOf("Designer", 0)) = 1
           /\ ~(blueprint.kind = "dict" /\ Truthy(blueprint))
                => /\ "blueprint.json" \notin ws_files
                   /\ \A n \in 1..Len(trace) :
                         ~IsCall(trace[n], {"Generator", "Reviewer", "Validator"})
                   /\ pc = "done" => result = NoneNone

(***************************************************************************)
(* The workspace of a goal.                                                *)
(***************************************************************************)
\* C25: prepare_workspace(goal) returns <cwd>/workspaces/<slug>, the slug
\* being the goal cut to 50 characters with its letters lower-cased and
\* every other character replaced by "_"; the directory then exists, and a
\* second call with the same goal from the same directory returns the same
\* path.
C25_WorkspaceOfGoal ==
    [][\A b \in Builds :
          (build_pc[b] = "start" /\ build_pc'[b] = "prepared")
            => LET workspace_dir == workspace_dirs'[b]
                   made == workspace_dir[Len(workspace_dir)]
               IN  /\ Len(workspace_dir) = Len(process_cwd) + 1
                   /\ SubSeq(workspace_dir, 1, Len(process_cwd)) = process_cwd
                   /\ Len(made) = IF Len(goals[b]) < 50 THEN Len(goals[b]) ELSE 50
                   /\ \A n \in 1..Len(made) :
                         made[n] = IF goals[b][n] \in {"a", "A"} THEN "a" ELSE "_"
                   /\ workspace_dir \in handlers'
                   /\ \A other \in Builds :
                         (/\ workspace_dirs[other] # NoDir
                          /\ goals[other] = goals[b]
                          /\ SubSeq(workspace_dirs[other], 1, Len(workspace_dirs[other]) - 1)
                               = process_cwd)
                            => workspace_dir = workspace_dirs[other]]_vars

\* C25 witness: both builds have the same goal of more than 50 characters,
\* with a capital and a hyphen in it, and both have prepared their workspace.
C25_SameLongGoalTwice ==
    /\ goals[1] = goals[2]
    /\ Len(goals[1]) > SlugLength
    /\ \E n \in 1..Len(goals[1]) : goals[1][n] = "-"
    /\ \A b \in Builds : build_pc[b] = "prepared"

C32_CodeLandsInWorkspace ==
    \A written \in code_written : written[1] = workspace_dirs[written[2]]

\* C38: create_engineer_agent, returning or raising, leaves the working
\* directory as it found it.
C38_WorkingDirectoryRestored ==
    [][\A b \in Builds :
          (build_pc[b] = "prepared" /\ build_pc'[b] # "prepared")
            => process_cwd' = process_cwd]_vars

(***************************************************************************)
(* Approval, validation and the order of the notifications.                *)
(***************************************************************************)
\* C33: in debug mode a Generator call is preceded by an "Architect:
\* Awaiting Approval" notification that the observer answered with True.
C33_ApprovedBeforeGenerating ==
    mode = "debug"
        => \A n \in 1..Len(trace) :
              IsCall(trace[n], {"Generator"})
                => \E m \in 1..(n - 1) :
                      trace[m] = Notification("Architect: Awaiting Approval", 0, "True")

\* C34: the Validator is called only when the review loop of every sub-agent
\* of the plan has ended (approved or out of iterations), at most once per
\* sub-agent, in the order of the plan and only for sub-agents whose code
\* file was recorded; no Generator or Reviewer call follows a Validator call,
\* and a build whose Validator calls all returned has status "success"
\* whatever the verdicts were.
C34_ValidatorAfterTheLoops ==
    /\ \A n \in 1..Len(trace) :
          IsCall(trace[n], {"Validator"})
            => /\ Recorded(trace[n].agent)
               /\ \A i \in 1..Len(agents_to_build) :
                     gen_calls[i] > 0
                       /\ (pass_at[i] # 0 \/ gen_calls[i] = max_review_iterations)
               /\ \A m \in (n + 1)..Len(trace) :
                     /\ ~IsCall(trace[m], {"Designer", "Generator", "Reviewer"})
                     /\ IsCall(trace[m], {"Validator"}) => trace[n].agent < trace[m].agent
    /\ (pc = "done" /\ Len(qa_results) > 0)
          => (result = NoneNone \/ (result.kind = "results" /\ result.status = "success"))
    /\ pc = "summary" => Len(qa_results) = Len(generated_code_files)

\* C34's case: a finished build of two sub-agents, both validated in plan
\* order, the first verdict FAIL, the status "success".
C34_FailedVerdictSuccessfulBuild ==
    /\ pc = "done" /\ result.kind = "results" /\ result.status = "success"
    /\ Len(qa_results) = 2 /\ qa_results[1].result = "FAIL"
    /\ CallsOf("Validator", 1) # {} /\ CallsOf("Validator", 2) # {}

\* the calls of debug_callback made so far, in order
Notifications == SelectSeq(trace, LAMBDA event : event.type = "notify")

\* the notifications of a whole build of n sub-agents, every one answered True
NotificationsOfBuild(n) ==
    <<Notification("Architect: Start", 0, "True"),
      Notification("Architect: Complete", 0, "True"),
      Notification("Factory: Engineer Phase Start", 0, "True")>>
    \o [k \in 1..(2 * n) |->
          IF k % 2 = 1 THEN Notification("Engineer: Building", (k + 1) \div 2, "True")
                       ELSE Notification("Engineer: Complete", k \div 2, "True")]
    \o <<Notification("QA Lead: Start", 0, "True"),
         Notification("QA Lead: Complete", 0, "True")>>

\* C35: a build in automated mode with an observer that ends with a result
\* has notified "Architect: Start", "Architect: Complete", "Factory: Engineer
\* Phase Start", then "Engineer: Building" and "Engineer: Complete" for each
\* sub-agent in plan order, then "QA Lead: Start" and "QA Lead: Complete",
\* and nothing else; blueprint.json exists only after "Architect: Complete"
\* and always by the time of "Factory: Engineer Phase Start".
C35_NotificationOrder ==
    (mode = "yolo" /\ debug_callback)
        => /\ (pc = "done" /\ result.kind = "results")
                 => Notifications = NotificationsOfBuild(Len(agents_to_build))
           /\ "blueprint.json" \in ws_files
                 => \E n \in 1..Len(trace) : trace[n].type = "notify"
                                                /\ trace[n].what = "Architect: Complete"
           /\ (\E n \in 1..Len(trace) : trace[n].type = "notify"
                                          /\ trace[n].what = "Factory: Engineer Phase Start")
                 => "blueprint.json" \in ws_files

\* C35's case: a finished automated build of two sub-agents, observed.
C35_ObservedBuildOfTwo ==
    /\ mode = "yolo" /\ debug_callback
    /\ pc = "done" /\ result.kind = "results"
    /\ Len(agents_to_build) = 2
    /\ Len(Notifications) = 9
    /\ "blueprint.json" \in ws_files

(***************************************************************************)
(* SubprocessAgentRunner (utils.py) and the agent_adapter.py it starts:    *)
(* two processes joined by the pipes stdin and stdout.                     *)
(***************************************************************************)
Queries == {"hello", "__EXIT__"}

\* json.dumps({"query": query}) + "\n", the n-th request of the runner (0: stop)
RequestLine(n, query) ==
    [kind |-> IF query = "__EXIT__" THEN "exit" ELSE "query", request |-> n]

\* a line on the subprocess's standard output: print(json.dumps(response)),
\* print(json.dumps(error_response)), or a line the agent wrote on its own
StdoutLine(kind, n) == [kind |-> kind, request |-> n]

NoLine == [kind |-> "none", request |-> 0]

\* how a send_message call ended: the dict it returned or the exception raised
Answer(n, kind, line) == [request |-> n, kind |-> kind, line |-> line]

\* lines the agent wrote on its own since start()
AgentLines ==
    Cardinality({k \in 1..Len(stdout) : stdout[k].kind = "agent"})
    + Cardinality({k \in 1..Len(answers) : answers[k].kind = "JSONDecodeError"})

\* start(code): Popen of "uv run python agent_adapter.py", or an exception
\* of shutil.copy or Popen that leaves self.process None
RStart ==
    /\ entry = "adapter" /\ runner_pc = "idle"
    /\ ~process /\ adapter_pc = "none"
    /\ \/ /\ process' = TRUE
          /\ adapter_pc' = "import"
          /\ UNCHANGED <<runner_pc, stdin, stdout, running, sent, answers>>
       \/ UNCHANGED adapterVars
    /\ UNCHANGED <<entry, factoryVars, architectVars, uiVars, processVars, toolVars>>

\* send_message(query) up to stdout.readline()
RSendMessage(query) ==
    /\ entry = "adapter" /\ runner_pc = "idle"
    /\ Len(answers) < MaxMessages
    /\ IF ~process
       THEN /\ answers' = Append(answers, Answer(0, "RuntimeError", NoLine))
            /\ UNCHANGED <<runner_pc, stdin, sent>>
       ELSE IF adapter_pc = "exited"
       THEN \* stdin.write / flush on a pipe nobody reads
            /\ answers' = Append(answers, Answer(0, "BrokenPipeError", NoLine))
            /\ UNCHANGED <<runner_pc, stdin, sent>>
       ELSE /\ stdin' = Append(stdin, RequestLine(sent + 1, query))
            /\ sent' = sent + 1
            /\ runner_pc' = "readline"
            /\ UNCHANGED answers
    /\ UNCHANGED <<process, adapter_pc, stdout, running>>
    /\ UNCHANGED <<entry, factoryVars, architectVars, uiVars, processVars, toolVars>>

\* stdout.readline() returns with a line or, at end of file, with ""; it
\* does not return while the subprocess lives and has written nothing
RReadline ==
    /\ entry = "adapter" /\ runner_pc = "readline"
    /\ IF stdout # <<>>
       THEN /\ stdout' = Tail(stdout)
            /\ answers' =
                 Append(answers,
                        IF Head(stdout).kind = "agent"
                        THEN Answer(sent, "JSONDecodeError", NoLine)
                        ELSE Answer(sent, "dict", Head(stdout)))
       ELSE /\ adapter_pc = "exited"
            /\ answers' = Append(answers, Answer(sent, "No response from agent", NoLine))
            /\ UNCHANGED stdout
    /\ runner_pc' = "idle"
    /\ UNCHANGED <<process, adapter_pc, stdin, running, sent>>
    /\ UNCHANGED <<entry, factoryVars, architectVars, uiVars, processVars, toolVars>>

\* stop(): the __EXIT__ line and wait, or terminate and wait; self.process = None
RStop ==
    /\ entry = "adapter" /\ runner_pc = "idle"
    /\ process
    /\ process' = FALSE
    /\ adapter_pc' = "exited"
    /\ stdin' = <<>>
    /\ stdout' = <<>>
    /\ running' = 0
    /\ UNCHANGED <<runner_pc, sent, answers>>
    /\ UNCHANGED <<entry, factoryVars, architectVars, uiVars, processVars, toolVars>>

\* the subprocess comes up: "from agent import agent" and InMemoryRunner, or
\* an error that ends it before main reads a line
AImport ==
    /\ entry = "adapter" /\ adapter_pc = "import"
    /\ adapter_pc' \in {"read", "exited"}
    /\ UNCHANGED <<process, runner_pc, stdin, stdout, running, sent, answers>>
    /\ UNCHANGED <<entry, factoryVars, architectVars, uiVars, processVars, toolVars>>

\* for line in sys.stdin: json.loads, request.get("query"), break on __EXIT__
AReadLine ==
    /\ entry = "adapter" /\ adapter_pc = "read"
    /\ stdin # <<>>
    /\ stdin' = Tail(stdin)
    /\ IF Head(stdin).kind = "exit"
       THEN /\ adapter_pc' = "exited"
            /\ UNCHANGED running
       ELSE /\ adapter_pc' = "run"
            /\ running' = Head(stdin).request
    /\ UNCHANGED <<process, runner_pc, stdout, sent, answers>>
    /\ UNCHANGED <<entry, factoryVars, architectVars, uiVars, processVars, toolVars>>

\* await runner.run_debug(query): the agent runs in the adapter's process and
\* on its standard output; it returns events, raises an Exception, writes a
\* line of its own, or ends the process (SystemExit, a crash); the adapter
\* prints one line for the first two
ARunAgent ==
    /\ entry = "adapter" /\ adapter_pc = "run"
    /\ \/ \E kind \in {"response", "error"} :
            /\ stdout' = Append(stdout, StdoutLine(kind, running))
            /\ adapter_pc' = "read"
            /\ running' = 0
       \/ /\ AgentLines < MaxAgentLines
          /\ stdout' = Append(stdout, StdoutLine("agent", running))
          /\ UNCHANGED <<adapter_pc, running>>
       \/ /\ adapter_pc' = "exited"
          /\ UNCHANGED <<stdout, running>>
    /\ UNCHANGED <<process, runner_pc, stdin, sent, answers>>
    /\ UNCHANGED <<entry, factoryVars, architectVars, uiVars, processVars, toolVars>>

\* a SubprocessAgentRunner just constructed
InitAdapter ==
    /\ entry = "adapter"
    /\ AdapterIdle
    /\ FactoryIdle
    /\ ArchitectIdle
    /\ UIIdle
    /\ ProcessIdle
    /\ ToolsIdle

NextAdapter ==
    \/ RStart
    \/ \E query \in Queries : RSendMessage(query)
    \/ RReadline
    \/ RStop
    \/ AImport
    \/ AReadLine
    \/ ARunAgent

SpecAdapter == InitAdapter /\ [][NextAdapter]_vars

\* the pipes are served: a readline that can return does, the subprocess
\* comes up and reads the lines sent to it; how long the agent runs is open
SpecAdapterLive ==
    SpecAdapter /\ WF_vars(RReadline) /\ WF_vars(AImport) /\ WF_vars(AReadLine)

\* C36: every line send_message reads is the response or error line the
\* adapter wrote for the request send_message has just sent (the n-th line
\* read answers the n-th request), and a request other than __EXIT__ the
\* adapter has taken up is at most one line away from its answer.
C36_AnswersInLockstep ==
    /\ \A k \in 1..Len(answers) :
          answers[k].kind \in {"dict", "JSONDecodeError"}
            => /\ answers[k].kind = "dict"
               /\ answers[k].line.kind \in {"response", "error"}
               /\ answers[k].line.request = answers[k].request
    /\ \A k \in 1..Len(stdout) :
          /\ stdout[k].kind \in {"response", "error"}
          /\ stdout[k].request = sent
    /\ Len(stdout) <= 1

\* C37: a send_message call that has written its request returns (the
\* readline ends with a line or with "No response from agent"); a call with
\* the subprocess gone ends with that error result too, never with an
\* exception of the pipe; a call before start() or after stop() raises
\* RuntimeError and writes nothing.
C37_SendMessageReturns ==
    /\ (runner_pc = "readline") ~> (runner_pc = "idle")
    /\ [](\A k \in 1..Len(answers) : answers[k].kind # "BrokenPipeError")
    /\ [][(\E query \in Queries : RSendMessage(query)) /\ ~process
             => /\ answers' = Append(answers, Answer(0, "RuntimeError", NoLine))
                /\ UNCHANGED <<stdin, sent>>]_vars

\* C39: in the Debug UI, at ENGINEER_READY with attempt = 1 (a session just
\* started from IDLE) the stored reviewer feedback is empty.
C39_SessionStartsWithoutFeedback ==
    (debug_state = "ENGINEER_READY" /\ attempt = 1) => feedback = "None"

====
